---- MODULE Spec2Model ----
(***************************************************************************)
(* Model of src/src/Singleton/singleton.py                                 *)
(*                                                                         *)
(*   class Singleton:                                                      *)
(*       _instance = None                                                  *)
(*       def __new__(cls, args, kwargs):                                   *)
(*           if not cls._instance:                                         *)
(*               cls._instance = super(Singleton, cls).__new__(cls,        *)
(*                                                    args, kwargs)        *)
(*           return cls._instance                                          *)
(*                                                                         *)
(* A call Singleton(args, kwargs) is type.__call__: it runs __new__        *)
(* and, since the result is an instance of the class, __init__ (here the   *)
(* inherited object.__init__).  __new__ is modelled at the granularity of  *)
(* its attribute reads and writes: the read of line 5, the construction    *)
(* and the store of line 6, and the read of line 7.                        *)
(***************************************************************************)
EXTENDS Integers, Sequences, FiniteSets, TLC

\* ------------------------------------------------------------------ bounds
NThreads == 2          \* threads of execution that call Singleton(...)
MaxCalls == 3          \* calls started over the process lifetime
MaxArgs  == 1          \* positional arguments passed to one call

Threads == 1..NThreads
ArgVals == {1}
KwNames == {"k"}

\* the *args a caller may pass: none, or MaxArgs of them
ArgTuples == {<< >>} \cup [1..MaxArgs -> ArgVals]
KwDicts   == SUBSET KwNames         \* the keys of the **kwargs a caller may pass

\* ------------------------------------------------------------------- state
VARIABLES
    _instance,   \* Singleton._instance: None or a reference to an object
    sub_instance,\* entry `_instance` of a subclass's own namespace, or Absent
    cls,         \* per thread: the class the call in progress was made on
    heap,        \* objects constructed so far; a reference is an index into it
    pc,          \* per thread: position inside the call
    args,        \* per thread: *args of the call in progress
    kwargs,      \* per thread: **kwargs of the call in progress
    seen,        \* per thread: value of cls._instance read at line 5
    tmp,         \* per thread: result of super().__new__ not yet stored
    history,     \* finished calls, in order of completion
    nAttempts,   \* invocations of super().__new__ (successful or not)
    nStores      \* assignments to cls._instance

vars == <<_instance, sub_instance, cls, heap, pc, args, kwargs, seen, tmp, history, nAttempts, nStores>>

None == 0                            \* line 2: _instance = None

\* The classes __new__ can be entered with as cls (line 4): Singleton itself
\* and a subclass that inherits __new__ and defines no _instance of its own.
Classes == {"Singleton", "Sub"}
Absent == -1                         \* no entry in the subclass's namespace

\* cls._instance as read at lines 5 and 7: the entry of the class's own
\* namespace if there is one, else the one inherited from Singleton.
getattr_instance_OwnOnly(c) ==
    IF c = "Sub" THEN (IF sub_instance = Absent THEN None ELSE sub_instance)
    ELSE _instance
getattr_instance(c) ==
    IF c = "Sub" /\ sub_instance # Absent THEN sub_instance ELSE _instance

\* ------------------------------------------------- CPython object protocol
\* class Singleton defines __new__ (line 4) and no __init__.
OverridesNew  == TRUE
OverridesInit == FALSE

excess_args(a, k) == Len(a) > 0 \/ k # {}

\* object.__new__(cls, args, kwargs), reached through super() at line 6:
\* excess arguments are rejected when the type overrides __new__ or does not
\* override __init__.
object_new(a, k) ==
    IF excess_args(a, k) /\ (OverridesNew \/ ~OverridesInit)
    THEN "TypeError" ELSE "ok"

\* object.__init__(self, args, kwargs), run by type.__call__ on the object
\* that __new__ returned: excess arguments are rejected when the type
\* overrides __init__ or does not override __new__.
object_init(a, k) ==
    IF excess_args(a, k) /\ (OverridesInit \/ ~OverridesNew)
    THEN "TypeError" ELSE "ok"

\* `not cls._instance` (line 5): None is falsy, a plain object is truthy.
not_AlwaysTrue(v) == TRUE
not_Inverted(v) == v # None
not(v) == v = None

\* ----------------------------------------------------------------- helpers
Idle(t) == pc[t] = "idle"

Started == Len(history) + Cardinality({t \in Threads : ~Idle(t)})

\* record of a finished call
Finished(t, out, res, made) ==
    [cls |-> cls[t], args |-> args[t], kwargs |-> kwargs[t], seen |-> seen[t],
     made |-> made, out |-> out, res |-> res]

\* the call of thread t ends: its frame is dropped
Leave(t, out, res, made) ==
    /\ history' = Append(history, Finished(t, out, res, made))
    /\ pc' = [pc EXCEPT ![t] = "idle"]
    /\ cls' = [cls EXCEPT ![t] = "Singleton"]
    /\ args' = [args EXCEPT ![t] = << >>]
    /\ kwargs' = [kwargs EXCEPT ![t] = {}]
    /\ seen' = [seen EXCEPT ![t] = None]
    /\ tmp' = [tmp EXCEPT ![t] = None]

\* ------------------------------------------------------------------- Init
Init ==
    /\ _instance = None
    /\ sub_instance = Absent
    /\ cls = [t \in Threads |-> "Singleton"]
    /\ heap = << >>
    /\ pc = [t \in Threads |-> "idle"]
    /\ args = [t \in Threads |-> << >>]
    /\ kwargs = [t \in Threads |-> {}]
    /\ seen = [t \in Threads |-> None]
    /\ tmp = [t \in Threads |-> None]
    /\ history = << >>
    /\ nAttempts = 0
    /\ nStores = 0

\* ---------------------------------------------------------------- actions
\* c(a, k) is called by thread t (lines 10, 11): enter __new__ with cls = c.
Call(t, c, a, k) ==
    /\ Idle(t)
    /\ Started < MaxCalls
    /\ pc' = [pc EXCEPT ![t] = "check"]
    /\ cls' = [cls EXCEPT ![t] = c]
    /\ args' = [args EXCEPT ![t] = a]
    /\ kwargs' = [kwargs EXCEPT ![t] = k]
    /\ UNCHANGED <<_instance, sub_instance, heap, seen, tmp, history, nAttempts, nStores>>

\* Variant: construction is attempted at most once per process (a guard set
\* before constructing), so a failed first construction is never retried.
Check_Once(t) ==
    /\ pc[t] = "check"
    /\ seen' = [seen EXCEPT ![t] = getattr_instance(cls[t])]
    /\ pc' = [pc EXCEPT ![t] =
                IF not(getattr_instance(cls[t])) /\ nAttempts = 0 THEN "construct" ELSE "return"]
    /\ UNCHANGED <<_instance, sub_instance, cls, heap, args, kwargs, tmp, history, nAttempts,
                   nStores>>

\* Variant: the check waits while another call is between its check and its
\* store (the check-then-act sequence is held under a lock).
Check_Locked(t) ==
    /\ pc[t] = "check"
    /\ \A u \in Threads : pc[u] \notin {"construct", "store"}
    /\ seen' = [seen EXCEPT ![t] = getattr_instance(cls[t])]
    /\ pc' = [pc EXCEPT ![t] = IF not(getattr_instance(cls[t]))
                                THEN "construct" ELSE "return"]
    /\ UNCHANGED <<_instance, sub_instance, cls, heap, args, kwargs, tmp, history, nAttempts,
                   nStores>>

\* line 5: if not cls._instance
Check(t) ==
    /\ pc[t] = "check"
    /\ seen' = [seen EXCEPT ![t] = getattr_instance(cls[t])]
    /\ pc' = [pc EXCEPT ![t] = IF not(getattr_instance(cls[t]))
                                THEN "construct" ELSE "return"]
    /\ UNCHANGED <<_instance, sub_instance, cls, heap, args, kwargs, tmp, history, nAttempts,
                   nStores>>

\* line 6, right-hand side: super(Singleton, cls).__new__(cls, args, kwargs).
\* The argument check raises TypeError; the allocation either yields a new
\* object or raises MemoryError.  An exception leaves __new__ and the call,
\* uncaught (there is no try statement in __new__).
ConstructOk(t) ==
    /\ pc[t] = "construct"
    /\ object_new(args[t], kwargs[t]) = "ok"
    /\ heap' = Append(heap, [type |-> cls[t], args |-> args[t], kwargs |-> kwargs[t]])
    /\ tmp' = [tmp EXCEPT ![t] = Len(heap) + 1]
    /\ pc' = [pc EXCEPT ![t] = "store"]
    /\ nAttempts' = nAttempts + 1
    /\ UNCHANGED <<_instance, sub_instance, cls, args, kwargs, seen, history, nStores>>

\* Variant: the exception is caught inside __new__ and the call goes on to
\* line 7.
ConstructRaise_Swallow(t) ==
    /\ pc[t] = "construct"
    /\ pc' = [pc EXCEPT ![t] = "return"]
    /\ nAttempts' = nAttempts + 1
    /\ UNCHANGED <<_instance, sub_instance, cls, heap, args, kwargs, seen, tmp, history,
                   nStores>>

ConstructRaise(t) ==
    /\ pc[t] = "construct"
    /\ \E err \in IF object_new(args[t], kwargs[t]) = "ok"
                  THEN {"MemoryError"} ELSE {object_new(args[t], kwargs[t])} :
          Leave(t, err, None, None)
    /\ nAttempts' = nAttempts + 1
    /\ UNCHANGED <<_instance, sub_instance, heap, nStores>>

\* line 6, assignment: cls._instance = <the new object>; an assignment writes
\* the namespace of cls itself.
Store(t) ==
    /\ pc[t] = "store"
    /\ IF cls[t] = "Sub"
       THEN sub_instance' = tmp[t] /\ UNCHANGED _instance
       ELSE _instance' = tmp[t] /\ UNCHANGED sub_instance
    /\ nStores' = nStores + 1
    /\ pc' = [pc EXCEPT ![t] = "return"]
    /\ UNCHANGED <<cls, heap, args, kwargs, seen, tmp, history, nAttempts>>

\* Variant: line 7 returns the object this call constructed instead of
\* re-reading cls._instance.
Return_Local(t) ==
    /\ pc[t] = "return"
    /\ Leave(t, "returned", tmp[t], tmp[t])
    /\ UNCHANGED <<_instance, sub_instance, heap, nAttempts, nStores>>

\* isinstance(r, c), the test type.__call__ makes before running __init__
isinstance(r, c) == r # None /\ (c = "Singleton" \/ heap[r].type = c)

\* line 7: return cls._instance; type.__call__ then runs __init__ on the
\* returned object if it is an instance of cls, and hands it to the caller.
Return(t) ==
    /\ pc[t] = "return"
    /\ LET r == getattr_instance(cls[t])
           out == IF isinstance(r, cls[t]) /\ object_init(args[t], kwargs[t]) # "ok"
                  THEN object_init(args[t], kwargs[t]) ELSE "returned"
       IN Leave(t, out, IF out = "returned" THEN r ELSE None, tmp[t])
    /\ UNCHANGED <<_instance, sub_instance, heap, nAttempts, nStores>>

\* ------------------------------------------------------- specifications
\* Sequential execution (the program as written, lines 9-13; single thread
\* of control): a call starts only when no other call is in progress.
SeqCall(t, a, k) == (\A u \in Threads : Idle(u)) /\ Call(t, "Singleton", a, k)

Next ==
    \E t \in Threads :
        \/ \E a \in ArgTuples, k \in KwDicts : SeqCall(t, a, k)
        \/ Check(t)
        \/ ConstructOk(t)
        \/ ConstructRaise(t)
        \/ Store(t)
        \/ Return(t)

Spec == Init /\ [][Next]_vars

\* Concurrent execution: threads interleave at every step of __new__.
ConcNext ==
    \E t \in Threads :
        \/ \E a \in ArgTuples, k \in KwDicts : Call(t, "Singleton", a, k)
        \/ Check(t)
        \/ ConstructOk(t)
        \/ ConstructRaise(t)
        \/ Store(t)
        \/ Return(t)

ConcSpec == Init /\ [][ConcNext]_vars

\* Concurrent execution in a program that also defines a subclass of
\* Singleton: calls are made on either class, with or without positional
\* arguments (keyword arguments take the same path through excess_args).
SubNext ==
    \E t \in Threads :
        \/ \E c \in Classes, a \in ArgTuples : Call(t, c, a, {})
        \/ Check(t)
        \/ ConstructOk(t)
        \/ ConstructRaise(t)
        \/ Store(t)
        \/ Return(t)

SubSpec == Init /\ [][SubNext]_vars

\* Scheduling: a thread that can take a step of its call is eventually run
\* (the interpreter switches between runnable threads), so each thread's
\* steps are weakly fair.  Whether a new call is made is up to the caller.
Step(t) == Check(t) \/ ConstructOk(t) \/ ConstructRaise(t) \/ Store(t) \/ Return(t)

FairSpec == ConcSpec /\ \A t \in Threads : WF_vars(Step(t))

TypeOK ==
    /\ _instance \in 0..Len(heap)
    /\ pc \in [Threads -> {"idle", "check", "construct", "store", "return"}]
    /\ nAttempts \in 0..MaxCalls
    /\ nStores \in 0..MaxCalls
    /\ Len(history) <= MaxCalls

\* ---------------------------------------------------------------- claims
Calls == 1..Len(history)
Returned(i) == history[i].out = "returned"
Raised(i) == history[i].out \in {"TypeError", "MemoryError"}
HasArgs(i) == excess_args(history[i].args, history[i].kwargs)

\* C1 (sequential runs): all calls that return normally return a reference
\* to one and the same object, whatever arguments the later calls pass; in
\* particular two argument-less calls r1, r2 satisfy r1 is r2.
C1_Identity ==
    \A i, j \in Calls :
        (Returned(i) /\ Returned(j)) =>
            /\ history[i].res # None
            /\ history[i].res = history[j].res

\* two calls returned, the later one with arguments, and the results are
\* the same object
C1_Witness ==
    \E i, j \in Calls :
        /\ i < j
        /\ Returned(i) /\ Returned(j)
        /\ ~HasArgs(i) /\ HasArgs(j)
        /\ history[i].res = history[j].res
        /\ history[i].res # None

\* C2 as stated (sequential runs): the construction invoked inside __new__
\* executes at most once over the process lifetime.
C2_ExecutesAtMostOnce == nAttempts <= 1

\* C2 as amended (sequential runs): the construction inside __new__ completes
\* successfully at most once, so at most one object is ever constructed; a
\* failed attempt may be followed by further attempts.
C2_SingleConstruction ==
    /\ Len(heap) <= 1
    /\ Len(heap) <= nAttempts
    /\ Cardinality({i \in Calls : history[i].made # None}) <= 1

\* construction was attempted more than once, one object exists and calls
\* kept arriving after it was made
C2_Witness ==
    /\ nAttempts >= 2
    /\ Len(heap) = 1
    /\ \E i, j \in Calls : i < j /\ history[i].made # None /\ Returned(j)

\* C3 (sequential runs; allocation failure set aside): for args1 # args2 the
\* calls Singleton(args1) then Singleton(args2) both return, return the same
\* object, and that object was constructed from args1 only.
C3_ArgumentIrrelevance ==
    (/\ Len(history) >= 2
     /\ <<history[1].args, history[1].kwargs>> # <<history[2].args, history[2].kwargs>>
     /\ history[1].out # "MemoryError"
     /\ history[2].out # "MemoryError")
    =>
    (/\ Returned(1) /\ Returned(2)
     /\ history[1].res # None
     /\ history[1].res = history[2].res
     /\ heap[history[1].res].args = history[1].args
     /\ heap[history[1].res].kwargs = history[1].kwargs)

\* C4 (sequential runs, failing constructions included): the slot is absent
\* or refers to one constructed object; once it refers to an object it never
\* refers to another; it is assigned at most once, and that assignment stores
\* the first successfully constructed object.
C4_SlotInv ==
    /\ _instance \in 0..Len(heap)
    /\ nStores <= 1
    /\ (_instance # None) <=> (nStores = 1)

C4_SlotStep ==
    /\ (_instance # None) => (_instance' = _instance)
    /\ (nStores' # nStores) =>
          /\ nStores = 0 /\ nStores' = 1
          /\ _instance = None
          /\ Len(heap) = 1
          /\ _instance' = 1

C4_SlotStability == [] C4_SlotInv /\ [][C4_SlotStep]_vars

\* a construction failed, a later one succeeded and was stored, and a call
\* after that returned
C4_Witness ==
    /\ _instance # None
    /\ \E i, j, k \in Calls :
          /\ i < j /\ j < k
          /\ Raised(i) /\ history[j].made # None /\ Returned(k)

\* C5 (sequential runs): the holder starts Uninitialized; its only transition
\* is Uninitialized -> Initialized, taken by the store of the first successful
\* construction; once Initialized the slot never becomes absent again.
State == IF _instance = None THEN "Uninitialized" ELSE "Initialized"

C5_Transition ==
    /\ (State = "Initialized") => (State' = "Initialized" /\ _instance' = _instance)
    /\ (State' # State) =>
          /\ State = "Uninitialized" /\ State' = "Initialized"
          /\ \E t \in Threads : pc[t] = "store" /\ _instance' = tmp[t]
          /\ Len(heap) = 1

C5_OneDirectional == (State = "Uninitialized") /\ [][C5_Transition]_vars

\* the holder is Initialized and a later call has gone through its check
C5_Witness ==
    /\ State = "Initialized"
    /\ \E i \in Calls : history[i].seen # None /\ Returned(i)

\* C6 (sequential runs): when the construction fails in a call that found the
\* slot absent, that call ends at once with the construction's error, returns
\* no reference, is not retried, and leaves the slot absent and the holder's
\* state unchanged.
ConstructionFails == nAttempts' = nAttempts + 1 /\ heap' = heap

C6_FailStep ==
    ConstructionFails =>
        /\ \E t \in Threads :
              /\ pc[t] = "construct" /\ pc'[t] = "idle"
              /\ seen[t] = None
              /\ history' = Append(history,
                    [cls |-> cls[t], args |-> args[t], kwargs |-> kwargs[t],
                     seen |-> None, made |-> None,
                     out |-> IF object_new(args[t], kwargs[t]) = "ok"
                             THEN "MemoryError"
                             ELSE object_new(args[t], kwargs[t]),
                     res |-> None])
        /\ _instance = None /\ _instance' = None
        /\ nStores' = nStores

C6_FailInv ==
    \A i \in Calls :
        Raised(i) => /\ history[i].res = None
                     /\ history[i].made = None
                     /\ history[i].seen = None

C6_ConstructionFailure == [] C6_FailInv /\ [][C6_FailStep]_vars

\* a call has ended with the construction's error and the slot is absent
C6_Witness ==
    /\ _instance = None
    /\ \E i \in Calls : Raised(i) /\ history[i].res = None

\* calls in progress that have constructed an object
Holding == {t \in Threads : tmp[t] # None}
\* finished calls that constructed an object
Makers == {i \in Calls : history[i].made # None}
\* the set of references handed to callers so far
Results == {history[i].res : i \in {j \in Calls : Returned(j)}}

\* C7 as stated (concurrent calls, any interleaving): exactly one object is
\* constructed.
C7_ExactlyOneConstructed ==
    /\ Len(heap) <= 1
    /\ (\E i \in Calls : Returned(i)) => Len(heap) = 1

\* C7 as amended (concurrent calls, any interleaving): at least one object is
\* constructed before any call returns, and every call whose check observed
\* the slot absent and whose construction succeeds constructs one object of
\* its own, so up to N objects are constructed, not exactly one.
C7_OnePerAbsentObserver ==
    /\ Len(heap) = Cardinality(Makers) + Cardinality(Holding)
    /\ Len(heap) <= Started
    /\ (\E i \in Calls : Returned(i)) => Len(heap) >= 1
    /\ \A i \in Makers : history[i].seen = None
    /\ \A t \in Holding : seen[t] = None

\* two calls both observed the slot absent and two objects exist
C7_Witness ==
    /\ Len(heap) = 2
    /\ \E i, j \in Calls :
          /\ i # j
          /\ history[i].seen = None /\ history[j].seen = None
          /\ history[i].made # None /\ history[j].made # None
          /\ history[i].made # history[j].made

\* C8 as stated (concurrent calls, any interleaving): all calls return a
\* reference to one and the same object.
C8_AllReturnSame == Cardinality(Results) <= 1

\* C8 as amended (concurrent calls, any interleaving): every call that
\* returns normally returns a reference to an object constructed by one of
\* the calls that observed the slot absent; the calls return one and the
\* same object when only one object was constructed, and otherwise may
\* return different objects.
C8_ReturnConstructed ==
    /\ \A r \in Results :
          /\ r \in 1..Len(heap)
          /\ \/ \E i \in Makers : history[i].made = r /\ history[i].seen = None
             \/ \E t \in Holding : tmp[t] = r /\ seen[t] = None /\ pc[t] = "return"
    /\ (Len(heap) = 1) => (Results \subseteq {1} /\ _instance \in {None, 1})

\* two concurrent calls have returned two different objects
C8_Witness ==
    \E i, j \in Calls :
        /\ Returned(i) /\ Returned(j)
        /\ history[i].res # history[j].res
        /\ history[i].res # None /\ history[j].res # None

\* C9 (sequential runs): after calls whose construction failed, the next call
\* finds the slot absent and attempts construction again; if that attempt
\* succeeds the slot holds the new object, the call returns it, and every
\* later call returns that same object.
OnlyFailuresBefore(j) == \A i \in 1..(j - 1) : Raised(i)

C9_Retry ==
    \A j \in Calls :
        OnlyFailuresBefore(j) =>
            /\ history[j].seen = None
            /\ Raised(j) \/ history[j].made # None
            /\ Returned(j) =>
                  /\ history[j].res = history[j].made
                  /\ _instance = history[j].res
                  /\ \A k \in Calls :
                        k > j => Returned(k) /\ history[k].res = history[j].res

\* a construction failed, the next call constructed and returned the object,
\* and a call after that returned the same object
C9_Witness ==
    /\ Len(history) >= 3
    /\ Raised(1)
    /\ Returned(2) /\ history[2].made # None
    /\ Returned(3) /\ history[3].res = history[2].res
    /\ _instance = history[2].res

\* C10 (concurrent calls, any interleaving): a call constructs and writes the
\* slot only if its check observed the slot absent; a call whose check
\* observed the slot populated constructs nothing, leaves the slot unchanged
\* and returns the object the slot holds.
C10_OnlyWhenAbsentInv ==
    /\ \A t \in Threads :
          /\ pc[t] \in {"construct", "store"} => seen[t] = None
          /\ tmp[t] # None => seen[t] = None
          /\ (pc[t] = "return" /\ seen[t] # None) => _instance # None
    /\ \A i \in Calls :
          /\ history[i].made # None => history[i].seen = None
          /\ history[i].seen # None =>
                /\ history[i].made = None
                /\ Returned(i)
                /\ history[i].res \in 1..Len(heap)

C10_OnlyWhenAbsentStep ==
    \A t \in Threads :
        /\ (pc'[t] # pc[t] /\ pc[t] # "check" /\ seen[t] # None) =>
              /\ pc[t] = "return"
              /\ UNCHANGED <<_instance, heap, nAttempts, nStores>>
              /\ history' = Append(history,
                    [cls |-> cls[t], args |-> args[t], kwargs |-> kwargs[t],
                     seen |-> seen[t], made |-> None, out |-> "returned",
                     res |-> _instance])
        /\ (pc'[t] # pc[t] /\ (heap' # heap \/ _instance' # _instance)) =>
              seen[t] = None
        /\ (pc[t] = "check" /\ pc'[t] # pc[t] /\ _instance # None) =>
              /\ pc'[t] = "return"
              /\ UNCHANGED <<_instance, heap, nAttempts, nStores>>

C10_ConstructOnlyWhenAbsent ==
    [] C10_OnlyWhenAbsentInv /\ [][C10_OnlyWhenAbsentStep]_vars

\* while another call was still between its check and its return, a call
\* observed the slot populated and returned the held object without
\* constructing
C10_Witness ==
    /\ \E i \in Calls :
          /\ history[i].seen # None /\ history[i].made = None
          /\ Returned(i) /\ history[i].res = history[i].seen
    /\ \E t \in Threads : pc[t] = "store" /\ seen[t] = None

\* C11 (concurrent calls): the check of line 5 and the store of line 6 are
\* separate unsynchronized steps: while one call is between its check and its
\* store, another call's check can still run, observes the slot absent and
\* goes on to construct; two calls that both constructed hold two distinct
\* objects of the guarded type.
ObservesAbsent(t) == Check(t) /\ pc'[t] = "construct" /\ seen'[t] = None

C11_RaceOnFirstUse ==
    \A t, u \in Threads :
        (t # u) =>
            /\ (pc[t] = "check" /\ pc[u] \in {"construct", "store"} /\ _instance = None)
                  => ENABLED ObservesAbsent(t)
            /\ (pc[t] = "construct" /\ pc[u] \in {"construct", "store"}
                  /\ object_new(args[t], kwargs[t]) = "ok")
                  => ENABLED ConstructOk(t)
            /\ (tmp[t] # None /\ tmp[u] # None)
                  => /\ tmp[t] # tmp[u]
                     /\ Len(heap) >= 2
                     /\ seen[t] = None /\ seen[u] = None

\* two calls in progress both observed the slot absent and each constructed
\* an object of its own
C11_Witness ==
    \E t, u \in Threads :
        /\ t # u
        /\ seen[t] = None /\ seen[u] = None
        /\ pc[t] = "store" /\ pc[u] = "store"
        /\ tmp[t] # None /\ tmp[u] # None /\ tmp[t] # tmp[u]
        /\ Len(heap) = 2

\* C12 (concurrent calls, weak fairness of each call's own steps): a call in
\* progress always has a step of its own enabled, whatever the other calls
\* are doing, so it never waits for another call and no interleaving
\* deadlocks; and every call that has started eventually finishes, by
\* returning a reference or raising the construction's error.
C12_NeverWaits == \A t \in Threads : ~Idle(t) => ENABLED Step(t)

C12_NonBlockingTermination ==
    /\ [] C12_NeverWaits
    /\ \A t \in Threads : (~Idle(t)) ~> Idle(t)

\* one call has finished while two others are in progress at different
\* positions
C12_Witness ==
    /\ Len(history) >= 1
    /\ \E t, u \in Threads :
          /\ t # u
          /\ pc[t] = "store" /\ pc[u] = "check"

\* C13 (concurrent calls, any interleaving): a call that returns normally
\* returns exactly the object the slot holds at its return step, which is
\* never None and need not be the object the call itself constructed; once
\* any call has returned normally the slot is populated.
C13_ReturnsInv ==
    /\ \A i \in Calls : Returned(i) => history[i].res \in 1..Len(heap)
    /\ (\E i \in Calls : Returned(i)) => _instance # None
    /\ \A t \in Threads : pc[t] = "return" => _instance # None

C13_ReturnsStep ==
    \A t \in Threads :
        (pc[t] = "return" /\ pc'[t] = "idle") =>
            /\ Len(history') = Len(history) + 1
            /\ history'[Len(history')].out = "returned"
            /\ history'[Len(history')].res = _instance
            /\ history'[Len(history')].res # None
            /\ _instance' = _instance

C13_ResultIsSlotContent == [] C13_ReturnsInv /\ [][C13_ReturnsStep]_vars

\* a call constructed one object and returned another: the one a racing
\* call had stored in the slot by the time of the return
C13_Witness ==
    \E i \in Calls :
        /\ Returned(i)
        /\ history[i].made # None
        /\ history[i].res # history[i].made
        /\ history[i].res = _instance

\* C14 (concurrent calls, any interleaving): once the slot is populated and
\* no call that observed it absent is still before or at its store, the slot
\* never changes again, nothing more is constructed, and every call that
\* finishes from then on (so every call that starts afterwards) returns the
\* object the slot holds; the number of objects ever constructed is at most
\* the number of calls whose check observed the slot absent.
Settled ==
    /\ _instance # None
    /\ \A t \in Threads : pc[t] \notin {"construct", "store"}

AbsentObservers ==
    Cardinality({i \in Calls : history[i].seen = None})
    + Cardinality({t \in Threads :
                      pc[t] \in {"construct", "store", "return"} /\ seen[t] = None})

C14_ConvergedStep ==
    Settled =>
        /\ Settled'
        /\ _instance' = _instance
        /\ heap' = heap
        /\ (history' # history) =>
              /\ history'[Len(history')].out = "returned"
              /\ history'[Len(history')].res = _instance

C14_Convergence ==
    /\ [] (Len(heap) <= AbsentObservers)
    /\ [][C14_ConvergedStep]_vars

\* two racing calls constructed two objects, both stores are done, and a call
\* that started afterwards observed the slot populated and returned the
\* object it holds
C14_Witness ==
    /\ Settled
    /\ Len(heap) = 2
    /\ nStores = 2
    /\ \E i \in Calls :
          /\ history[i].seen = _instance
          /\ Returned(i) /\ history[i].res = _instance

\* C15 (calls on Singleton and on a subclass, any interleaving): a step of a
\* call on the subclass never changes Singleton's own slot (the store writes
\* the subclass's namespace) and a call on Singleton never changes the
\* subclass's; once Singleton's slot is populated while the subclass has no
\* entry of its own and no construction for it is under way, this stays so:
\* every call on the subclass constructs nothing and returns the object held
\* by Singleton's slot, an instance of Singleton itself.
Moves(t) == pc'[t] # pc[t]

BaseFirst ==
    /\ _instance # None
    /\ sub_instance = Absent
    /\ \A t \in Threads : cls[t] = "Sub" => pc[t] \notin {"construct", "store"}

C15_SharingStep ==
    \A t \in Threads :
        /\ (Moves(t) /\ cls[t] = "Sub") => _instance' = _instance
        /\ (Moves(t) /\ cls[t] = "Singleton" /\ pc[t] # "idle") =>
              sub_instance' = sub_instance
        /\ (BaseFirst /\ Moves(t) /\ cls[t] = "Sub") =>
              /\ heap' = heap
              /\ nAttempts' = nAttempts
              /\ pc[t] = "check" => pc'[t] = "return" /\ seen'[t] = _instance
              /\ pc[t] = "return" =>
                    /\ Len(history') = Len(history) + 1
                    /\ history'[Len(history')].cls = "Sub"
                    /\ history'[Len(history')].out = "returned"
                    /\ history'[Len(history')].made = None
                    /\ history'[Len(history')].res = _instance
                    /\ heap[_instance].type = "Singleton"

C15_SubclassSharing == [][BaseFirst => BaseFirst']_vars /\ [][C15_SharingStep]_vars

\* Singleton was instantiated first; a later call on the subclass, made with
\* arguments, returned Singleton's object and the subclass still has no
\* entry of its own
C15_Witness ==
    /\ BaseFirst
    /\ \E i \in Calls :
          /\ history[i].cls = "Sub"
          /\ HasArgs(i)
          /\ Returned(i)
          /\ history[i].made = None
          /\ history[i].res = _instance
          /\ heap[history[i].res].type = "Singleton"

====
